---- MODULE Spec2Model ----
(***************************************************************************)
(* RedeDisciplinas (src/ag.py): a directed graph of courses in which the   *)
(* dictionary _pre_reqs maps every course to the set of its direct         *)
(* prerequisites.  The mutations change the dictionary, the queries are    *)
(* computed from it.  The program is synchronous and single-threaded: a    *)
(* call starts when the one before it has returned; res holds the outcome  *)
(* of a query until the caller has taken it.                               *)
(*                                                                         *)
(* Iteration order.  The code turns sets into lists (list(s), extend(s),   *)
(* for m in s) and the order of a set of strings is fixed by the strings'  *)
(* hashes, which differ from run to run: every such place is a choice      *)
(* among all the orders of the set (Ordens).  The dictionary is iterated   *)
(* in the order its keys were inserted; every order of the keys of a graph *)
(* is the insertion order of some call sequence that builds the graph, so  *)
(* the iteration of the dictionary is a choice among all orders as well.   *)
(***************************************************************************)
EXTENDS Integers, Sequences, FiniteSets, TLC

\* The course identifiers the calls draw their arguments from.
Courses == {"A", "B", "C", "D"}

\* The largest number of prerequisite edges the graph is grown to.
MaxEdges == 4

VARIABLES
  pre_reqs,    \* self._pre_reqs: a function from the known courses to sets of courses
  removidas,   \* history: the courses removed and not added again since
  res          \* the outcome of the last call

vars == <<pre_reqs, removidas, res>>

----------------------------------------------------------------------------
\* Helpers

\* All the orders in which the elements of a set can be listed.
RECURSIVE Ordens(_)
Ordens(S) ==
  IF S = {} THEN {<<>>}
  ELSE UNION {{<<x>> \o s : s \in Ordens(S \ {x})} : x \in S}

\* The elements of a sequence.
Range(s) == {s[i] : i \in 1..Len(s)}

\* self._pre_reqs.get(n, set())
Get(n) == IF n \in DOMAIN pre_reqs THEN pre_reqs[n] ELSE {}

\* The number of edges of the graph.
RECURSIVE SumCard(_)
SumCard(S) ==
  IF S = {} THEN 0
  ELSE LET x == CHOOSE y \in S : TRUE IN Cardinality(pre_reqs[x]) + SumCard(S \ {x})

NumArestas == SumCard(DOMAIN pre_reqs)

\* The outcome of a call: the exception raised ("ok" when none) and the
\* value returned, by its type.
Outcome(op, args, err, lista, niveis, bool) ==
  [op |-> op, args |-> args, err |-> err, lista |-> lista, niveis |-> niveis, bool |-> bool]

\* No outcome is waiting for the caller (a mutation returns None).
Nenhum == Outcome("", <<>>, "ok", <<>>, <<>>, FALSE)

----------------------------------------------------------------------------
\* Construction and mutations

\* __init__(disciplinas): every given course is added with no prerequisites.
Init ==
  /\ \E S \in SUBSET Courses : pre_reqs = [d \in S |-> {}]
  /\ removidas = {}
  /\ res = Nenhum

\* self._pre_reqs after adicionar_disciplina(d)
ComDisciplina(g, d) ==
  IF d \in DOMAIN g THEN g ELSE [x \in DOMAIN g \cup {d} |-> IF x = d THEN {} ELSE g[x]]

adicionar_disciplina(d) ==
  /\ res = Nenhum
  /\ pre_reqs' = ComDisciplina(pre_reqs, d)
  /\ removidas' = removidas \ {d}
  /\ UNCHANGED res

\* remover_disciplina without the loop that discards d from the other sets.
remover_disciplina_sem_arestas(d) ==
  /\ res = Nenhum
  /\ pre_reqs' = IF d \notin DOMAIN pre_reqs THEN pre_reqs
                 ELSE [x \in DOMAIN pre_reqs \ {d} |-> pre_reqs[x]]
  /\ removidas' = removidas \cup {d}
  /\ UNCHANGED res

\* remover_disciplina without the del of the key.
remover_disciplina_sem_del(d) ==
  /\ res = Nenhum
  /\ pre_reqs' = IF d \notin DOMAIN pre_reqs THEN pre_reqs
                 ELSE [x \in DOMAIN pre_reqs |-> pre_reqs[x] \ {d}]
  /\ removidas' = removidas \cup {d}
  /\ UNCHANGED res

remover_disciplina(d) ==
  /\ res = Nenhum
  /\ pre_reqs' = IF d \notin DOMAIN pre_reqs THEN pre_reqs
                 ELSE [x \in DOMAIN pre_reqs \ {d} |-> pre_reqs[x] \ {d}]
  /\ removidas' = removidas \cup {d}
  /\ UNCHANGED res

adicionar_pre_requisito(pre, d) ==
  /\ res = Nenhum
  /\ \/ NumArestas < MaxEdges
     \/ d \in DOMAIN pre_reqs /\ pre \in pre_reqs[d]
  /\ LET g == ComDisciplina(ComDisciplina(pre_reqs, pre), d)
     IN pre_reqs' = [g EXCEPT ![d] = @ \cup {pre}]
  /\ removidas' = removidas \ {pre, d}
  /\ UNCHANGED res

remover_pre_requisito(pre, d) ==
  /\ res = Nenhum
  /\ pre_reqs' = IF d \in DOMAIN pre_reqs
                 THEN [pre_reqs EXCEPT ![d] = @ \ {pre}]
                 ELSE pre_reqs
  /\ UNCHANGED removidas
  /\ UNCHANGED res

----------------------------------------------------------------------------
\* Queries

disciplinas_res ==
  {Outcome("disciplinas", <<>>, "ok", o, <<>>, FALSE) : o \in Ordens(DOMAIN pre_reqs)}

prerequisitos_diretos_res(d) ==
  IF d \notin DOMAIN pre_reqs
  THEN {Outcome("prerequisitos_diretos", <<d>>, "KeyError", <<>>, <<>>, FALSE)}
  ELSE {Outcome("prerequisitos_diretos", <<d>>, "ok", o, <<>>, FALSE) :
          o \in Ordens(pre_reqs[d])}

\* The while loop of todos_prerequisitos: every run it can make from the
\* stack pilha and the set vistos.  A run is recorded as the final vistos,
\* the courses whose prerequisites were pushed (in order) and the number of
\* iterations made.
RECURSIVE TodosLoop(_, _, _, _)

\* TodosLoop without pilha.extend: only the direct prerequisites are seen.
RECURSIVE TodosLoop_so_diretos(_, _, _, _)
TodosLoop_so_diretos(pilha, vistos, expandidos, passos) ==
  IF pilha = <<>>
  THEN {[vistos |-> vistos, expandidos |-> expandidos, passos |-> passos]}
  ELSE LET cur == pilha[Len(pilha)]
           resto == SubSeq(pilha, 1, Len(pilha) - 1)
       IN IF cur \in vistos
          THEN TodosLoop_so_diretos(resto, vistos, expandidos, passos + 1)
          ELSE TodosLoop_so_diretos(resto, vistos \cup {cur}, Append(expandidos, cur), passos + 1)

TodosLoop(pilha, vistos, expandidos, passos) ==
  IF pilha = <<>>
  THEN {[vistos |-> vistos, expandidos |-> expandidos, passos |-> passos]}
  ELSE LET cur == pilha[Len(pilha)]
           resto == SubSeq(pilha, 1, Len(pilha) - 1)
       IN IF cur \in vistos
          THEN TodosLoop(resto, vistos, expandidos, passos + 1)
          ELSE UNION {TodosLoop(resto \o o, vistos \cup {cur},
                                Append(expandidos, cur), passos + 1) :
                        o \in Ordens(Get(cur))}

\* The runs of todos_prerequisitos(d) for a known course d.
TodosRuns(d) == UNION {TodosLoop(o, {}, <<>>, 0) : o \in Ordens(pre_reqs[d])}

todos_prerequisitos_res(d) ==
  IF d \notin DOMAIN pre_reqs
  THEN {Outcome("todos_prerequisitos", <<d>>, "KeyError", <<>>, <<>>, FALSE)}
  ELSE UNION {{Outcome("todos_prerequisitos", <<d>>, "ok", o, <<>>, FALSE) :
                 o \in Ordens(r.vistos)} : r \in TodosRuns(d)}

\* The while loop of existe_dependencia: the values it can return.
RECURSIVE ExisteLoop(_, _, _)

\* ExisteLoop without pilha.extend: only the direct prerequisites are compared.
RECURSIVE ExisteLoop_so_diretos(_, _, _)
ExisteLoop_so_diretos(a, pilha, visitados) ==
  IF pilha = <<>> THEN {FALSE}
  ELSE LET cur == pilha[Len(pilha)]
           resto == SubSeq(pilha, 1, Len(pilha) - 1)
       IN IF cur = a THEN {TRUE}
          ELSE IF cur \in visitados THEN ExisteLoop_so_diretos(a, resto, visitados)
          ELSE ExisteLoop_so_diretos(a, resto, visitados \cup {cur})

ExisteLoop(a, pilha, visitados) ==
  IF pilha = <<>> THEN {FALSE}
  ELSE LET cur == pilha[Len(pilha)]
           resto == SubSeq(pilha, 1, Len(pilha) - 1)
       IN IF cur = a THEN {TRUE}
          ELSE IF cur \in visitados THEN ExisteLoop(a, resto, visitados)
          ELSE UNION {ExisteLoop(a, resto \o o, visitados \cup {cur}) :
                        o \in Ordens(Get(cur))}

\* ExisteVals with a course taken to depend on itself.
ExisteVals_reflexiva(a, b) ==
  IF b \notin DOMAIN pre_reqs \/ a \notin DOMAIN pre_reqs THEN {FALSE}
  ELSE IF a = b THEN {TRUE}
  ELSE UNION {ExisteLoop(a, o, {}) : o \in Ordens(pre_reqs[b])}

\* The values existe_dependencia(a, b) can return.
ExisteVals(a, b) ==
  IF b \notin DOMAIN pre_reqs \/ a \notin DOMAIN pre_reqs THEN {FALSE}
  ELSE UNION {ExisteLoop(a, o, {}) : o \in Ordens(pre_reqs[b])}

existe_dependencia_res(a, b) ==
  {Outcome("existe_dependencia", <<a, b>>, "ok", <<>>, <<>>, v) : v \in ExisteVals(a, b)}

\* in_degree of Kahn's algorithm over the prerequisite sets prs.
InDegree(prs) == [n \in DOMAIN prs |-> Cardinality(prs[n])]

\* reverse_adj: the courses that have n as a direct prerequisite.
ReverseAdj(prs) == [n \in DOMAIN prs |-> {m \in DOMAIN prs : n \in prs[m]}]

\* The while loop of Kahn's algorithm: every order it can end with.  The
\* successors of n are visited in any order; those whose in_degree reaches 0
\* are appended to the queue in that order.
RECURSIVE KahnLoop(_, _, _, _)
KahnLoop(prs, fila, ordem, in_degree) ==
  IF fila = <<>> THEN {ordem}
  ELSE LET n == Head(fila)
           succ == ReverseAdj(prs)[n]
           novo == [m \in DOMAIN in_degree |->
                      IF m \in succ THEN in_degree[m] - 1 ELSE in_degree[m]]
           prontos == {m \in succ : novo[m] = 0}
       IN UNION {KahnLoop(prs, Tail(fila) \o o, Append(ordem, n), novo) :
                   o \in Ordens(prontos)}

\* Kahn with every course in the first queue, whatever its in_degree.
Kahn_fila_todos(prs) ==
  UNION {KahnLoop(prs, f, <<>>, InDegree(prs)) : f \in Ordens(DOMAIN prs)}

\* The orders Kahn's algorithm can produce over prs.
Kahn(prs) ==
  UNION {KahnLoop(prs, f, <<>>, InDegree(prs)) :
           f \in Ordens({n \in DOMAIN prs : InDegree(prs)[n] = 0})}

\* reverse_adj[p] raises KeyError for a prerequisite p that is no key.
Pendente == \E n \in DOMAIN pre_reqs : ~(pre_reqs[n] \subseteq DOMAIN pre_reqs)

\* ordenacao_topologica without the comparison of the lengths.
ordenacao_topologica_res_sem_verificacao ==
  IF Pendente
  THEN {Outcome("ordenacao_topologica", <<>>, "KeyError", <<>>, <<>>, FALSE)}
  ELSE {Outcome("ordenacao_topologica", <<>>, "ok", o, <<>>, FALSE) : o \in Kahn(pre_reqs)}

ordenacao_topologica_res ==
  IF Pendente
  THEN {Outcome("ordenacao_topologica", <<>>, "KeyError", <<>>, <<>>, FALSE)}
  ELSE {IF Len(o) /= Cardinality(DOMAIN pre_reqs)
        THEN Outcome("ordenacao_topologica", <<>>, "CycleError", <<>>, <<>>, FALSE)
        ELSE Outcome("ordenacao_topologica", <<>>, "ok", o, <<>>, FALSE) :
          o \in Kahn(pre_reqs)}

tem_ciclo_res ==
  {IF r.err = "KeyError"
   THEN Outcome("tem_ciclo", <<>>, "KeyError", <<>>, <<>>, FALSE)
   ELSE Outcome("tem_ciclo", <<>>, "ok", <<>>, <<>>, r.err = "CycleError") :
     r \in ordenacao_topologica_res}

\* sub_prs: the prerequisite sets restricted to necessario.
SubPrs(necessario) == [n \in necessario |-> Get(n) \cap necessario]

\* PlanoRuns without necessario.add(alvo).
PlanoRuns_sem_alvo(alvo) ==
  IF alvo \notin DOMAIN pre_reqs THEN {[err |-> "KeyError", ordem |-> <<>>]}
  ELSE UNION {LET necessario == r.vistos
              IN {IF Len(o) /= Cardinality(necessario)
                  THEN [err |-> "CycleError", ordem |-> <<>>]
                  ELSE [err |-> "ok", ordem |-> o] :
                    o \in Kahn(SubPrs(necessario))} :
                r \in TodosRuns(alvo)}

\* PlanoRuns sorting the whole graph and keeping the courses of necessario.
PlanoRuns_grafo_todo(alvo) ==
  IF alvo \notin DOMAIN pre_reqs THEN {[err |-> "KeyError", ordem |-> <<>>]}
  ELSE UNION {LET necessario == r.vistos \cup {alvo}
              IN {IF Len(o) /= Cardinality(DOMAIN pre_reqs)
                  THEN [err |-> "CycleError", ordem |-> <<>>]
                  ELSE [err |-> "ok",
                        ordem |-> SelectSeq(o, LAMBDA n : n \in necessario)] :
                    o \in Kahn(SubPrs(DOMAIN pre_reqs))} :
                r \in TodosRuns(alvo)}

\* The values plano_de_estudo_para(alvo) can end with: an error and an order.
PlanoRuns(alvo) ==
  IF alvo \notin DOMAIN pre_reqs THEN {[err |-> "KeyError", ordem |-> <<>>]}
  ELSE UNION {LET necessario == r.vistos \cup {alvo}
              IN {IF Len(o) /= Cardinality(necessario)
                  THEN [err |-> "CycleError", ordem |-> <<>>]
                  ELSE [err |-> "ok", ordem |-> o] :
                    o \in Kahn(SubPrs(necessario))} :
                r \in TodosRuns(alvo)}

plano_de_estudo_para_res(alvo) ==
  {Outcome("plano_de_estudo_para", <<alvo>>, r.err, r.ordem, <<>>, FALSE) :
     r \in PlanoRuns(alvo)}

\* NiveisLoop without the test in_degree[m] == 0.
RECURSIVE NiveisLoop_sem_grau(_, _, _, _, _)
NiveisLoop_sem_grau(sub_prs, disponiveis, processados, in_degree, niveis) ==
  IF disponiveis = {} THEN niveis
  ELSE LET novo == [m \in DOMAIN sub_prs |->
                      in_degree[m] - Cardinality(disponiveis \cap sub_prs[m])]
           proximos == {m \in DOMAIN sub_prs : disponiveis \cap sub_prs[m] /= {}}
       IN NiveisLoop_sem_grau(sub_prs, proximos \ (processados \cup disponiveis),
                     processados \cup disponiveis, novo, Append(niveis, disponiveis))

\* The while loop of progressao_por_niveis_para.
RECURSIVE NiveisLoop(_, _, _, _, _)
NiveisLoop(sub_prs, disponiveis, processados, in_degree, niveis) ==
  IF disponiveis = {} THEN niveis
  ELSE LET novo == [m \in DOMAIN sub_prs |->
                      in_degree[m] - Cardinality(disponiveis \cap sub_prs[m])]
           proximos == {m \in DOMAIN sub_prs :
                          disponiveis \cap sub_prs[m] /= {} /\ novo[m] = 0}
       IN NiveisLoop(sub_prs, proximos \ (processados \cup disponiveis),
                     processados \cup disponiveis, novo, Append(niveis, disponiveis))

\* The levels computed from the order returned by plano_de_estudo_para.
Niveis(ordem) ==
  LET sub_prs == SubPrs(Range(ordem))
      in_degree == InDegree(sub_prs)
  IN NiveisLoop(sub_prs, {n \in DOMAIN sub_prs : in_degree[n] = 0}, {}, in_degree, <<>>)

progressao_por_niveis_para_res(alvo) ==
  {IF r.err /= "ok"
   THEN Outcome("progressao_por_niveis_para", <<alvo>>, r.err, <<>>, <<>>, FALSE)
   ELSE Outcome("progressao_por_niveis_para", <<alvo>>, "ok", <<>>, Niveis(r.ordem), FALSE) :
     r \in PlanoRuns(alvo)}

\* A query leaves the graph as it is and returns one of its outcomes.

disciplinas ==
  /\ res = Nenhum
  /\ res' \in disciplinas_res
  /\ UNCHANGED <<pre_reqs, removidas>>

prerequisitos_diretos(d) ==
  /\ res = Nenhum
  /\ res' \in prerequisitos_diretos_res(d)
  /\ UNCHANGED <<pre_reqs, removidas>>

todos_prerequisitos(d) ==
  /\ res = Nenhum
  /\ res' \in todos_prerequisitos_res(d)
  /\ UNCHANGED <<pre_reqs, removidas>>

existe_dependencia(a, b) ==
  /\ res = Nenhum
  /\ res' \in existe_dependencia_res(a, b)
  /\ UNCHANGED <<pre_reqs, removidas>>

tem_ciclo ==
  /\ res = Nenhum
  /\ res' \in tem_ciclo_res
  /\ UNCHANGED <<pre_reqs, removidas>>

ordenacao_topologica ==
  /\ res = Nenhum
  /\ res' \in ordenacao_topologica_res
  /\ UNCHANGED <<pre_reqs, removidas>>

plano_de_estudo_para(alvo) ==
  /\ res = Nenhum
  /\ res' \in plano_de_estudo_para_res(alvo)
  /\ UNCHANGED <<pre_reqs, removidas>>

progressao_por_niveis_para(alvo) ==
  /\ res = Nenhum
  /\ res' \in progressao_por_niveis_para_res(alvo)
  /\ UNCHANGED <<pre_reqs, removidas>>

\* The caller takes the outcome of the query; the next call can start.
retornar ==
  /\ res /= Nenhum
  /\ res' = Nenhum
  /\ UNCHANGED <<pre_reqs, removidas>>

----------------------------------------------------------------------------
\* Specification

Next ==
  \/ \E d \in Courses : adicionar_disciplina(d)
  \/ \E d \in Courses : remover_disciplina(d)
  \/ \E pre, d \in Courses : adicionar_pre_requisito(pre, d)
  \/ \E pre, d \in Courses : remover_pre_requisito(pre, d)
  \/ disciplinas
  \/ \E d \in Courses : prerequisitos_diretos(d)
  \/ \E d \in Courses : todos_prerequisitos(d)
  \/ \E a, b \in Courses : existe_dependencia(a, b)
  \/ tem_ciclo
  \/ ordenacao_topologica
  \/ \E alvo \in Courses : plano_de_estudo_para(alvo)
  \/ \E alvo \in Courses : progressao_por_niveis_para(alvo)
  \/ retornar

Spec == Init /\ [][Next]_vars

----------------------------------------------------------------------------
\* The notions the properties are stated with, defined from the edges alone.

\* The smallest set that contains S and the direct prerequisites, inside N,
\* of its members.
RECURSIVE FechoEm(_, _)
FechoEm(N, S) ==
  LET T == S \cup UNION {Get(x) \cap N : x \in S}
  IN IF T = S THEN S ELSE FechoEm(N, T)

\* The courses reached from d by one or more prerequisite edges.
Alcance(d) == FechoEm(Courses, Get(d))

\* The courses needed to reach alvo.
Necessario(alvo) == Alcance(alvo) \cup {alvo}

\* The sub-graph induced on N has a directed cycle.
CiclicoEm(N) == \E c \in N : c \in FechoEm(N, Get(c) \cap N)

\* The course d lies on a directed cycle.
EmCiclo(d) == \E p \in Get(d) : d \in {p} \cup Alcance(p)

\* The graph has a directed cycle.
Ciclico == CiclicoEm(DOMAIN pre_reqs)

SemRepeticao(s) == \A i, j \in 1..Len(s) : i /= j => s[i] /= s[j]

Pos(s, x) == CHOOSE i \in 1..Len(s) : s[i] = x

\* Every prerequisite edge between courses of s goes forward in s.
RespeitaArestas(s) ==
  \A c \in Range(s) : \A p \in Get(c) \cap Range(s) : Pos(s, p) < Pos(s, c)

Diamante ==
  ("A" :> {}) @@ ("B" :> {"A"}) @@ ("C" :> {"A"}) @@ ("D" :> {"B", "C"})

Triangulo == ("A" :> {"C"}) @@ ("B" :> {"A"}) @@ ("C" :> {"B"})

----------------------------------------------------------------------------
\* Properties

\* C1: after any sequence of additions and removals of courses and of
\* prerequisites, every course in some course's prerequisite set is itself
\* a key of the graph.
C1_SemArestasPendentes ==
  \A n \in DOMAIN pre_reqs : pre_reqs[n] \subseteq DOMAIN pre_reqs

\* C1 witness: a course has been removed from a graph that still has edges.
C1_Witness ==
  /\ removidas /= {}
  /\ NumArestas >= 2
  /\ Cardinality(DOMAIN pre_reqs) = 3

\* C2: on a graph without cycles ordenacao_topologica returns every course
\* exactly once, every prerequisite before the courses that require it.
C2_OrdemTopologica ==
  (res.op = "ordenacao_topologica" /\ ~Ciclico) =>
     /\ res.err = "ok"
     /\ Range(res.lista) = DOMAIN pre_reqs
     /\ SemRepeticao(res.lista)
     /\ RespeitaArestas(res.lista)

\* C2 witness: the diamond has been sorted.
C2_Witness ==
  /\ res.op = "ordenacao_topologica"
  /\ res.err = "ok"
  /\ pre_reqs = Diamante

\* C3: tem_ciclo returns true exactly when the graph has a directed cycle,
\* and ordenacao_topologica raises CycleError exactly then.
C3_TemCiclo ==
  /\ res.op = "tem_ciclo" => (res.err = "ok" /\ res.bool = Ciclico)
  /\ res.op = "ordenacao_topologica" => ((res.err = "CycleError") = Ciclico)

\* C3 witness: tem_ciclo has returned true on the cycle A -> B -> C -> A.
C3_Witness ==
  /\ res.op = "tem_ciclo"
  /\ res.bool
  /\ pre_reqs = Triangulo

\* C4: for a known alvo whose needed courses have no cycle,
\* plano_de_estudo_para returns exactly the needed courses, each once, alvo
\* last and every prerequisite before the courses that require it.
C4_PlanoDeEstudo ==
  (/\ res.op = "plano_de_estudo_para"
   /\ res.args[1] \in DOMAIN pre_reqs
   /\ ~CiclicoEm(Necessario(res.args[1]))) =>
     /\ res.err = "ok"
     /\ Range(res.lista) = Necessario(res.args[1])
     /\ SemRepeticao(res.lista)
     /\ res.lista[Len(res.lista)] = res.args[1]
     /\ RespeitaArestas(res.lista)

\* C4 witness: a plan of three courses or more that leaves a known course out.
C4_Witness ==
  /\ res.op = "plano_de_estudo_para"
  /\ res.err = "ok"
  /\ Len(res.lista) >= 3
  /\ Range(res.lista) /= DOMAIN pre_reqs

\* C5: for a known alvo whose needed courses have no cycle, the levels of
\* progressao_por_niveis_para are non-empty and pairwise disjoint, their
\* union is the set of courses of the study plan, the first level has only
\* courses without needed prerequisites, every course of a level has its
\* direct prerequisites in earlier levels, and the last level has alvo.
C5_Niveis ==
  (/\ res.op = "progressao_por_niveis_para"
   /\ res.args[1] \in DOMAIN pre_reqs
   /\ ~CiclicoEm(Necessario(res.args[1]))) =>
     LET alvo == res.args[1]
         niveis == res.niveis
         K == 1..Len(niveis)
     IN /\ res.err = "ok"
        /\ Len(niveis) >= 1
        /\ \A k \in K : niveis[k] /= {}
        /\ \A j, k \in K : j /= k => niveis[j] \cap niveis[k] = {}
        /\ UNION {niveis[k] : k \in K} = Necessario(alvo)
        /\ \A r \in PlanoRuns(alvo) : UNION {niveis[k] : k \in K} = Range(r.ordem)
        /\ \A c \in niveis[1] : Get(c) \cap Necessario(alvo) = {}
        /\ \A k \in K : \A c \in niveis[k] : \A p \in Get(c) :
             \E j \in 1..(k - 1) : p \in niveis[j]
        /\ alvo \in niveis[Len(niveis)]

\* C5 witness: the levels of D in the diamond are {A}, {B, C}, {D}.
C5_Witness ==
  /\ res.op = "progressao_por_niveis_para"
  /\ res.args = <<"D">>
  /\ pre_reqs = Diamante
  /\ res.niveis = <<{"A"}, {"B", "C"}, {"D"}>>

\* C6: for a known alvo, plano_de_estudo_para and progressao_por_niveis_para
\* raise CycleError exactly when the sub-graph induced on the courses needed
\* for alvo has a cycle, and leave the graph unchanged either way.
C6_CicloNoSubgrafo ==
  [][(/\ res = Nenhum
      /\ res'.op \in {"plano_de_estudo_para", "progressao_por_niveis_para"}
      /\ res'.args[1] \in DOMAIN pre_reqs) =>
        /\ pre_reqs' = pre_reqs
        /\ res'.err \in {"ok", "CycleError"}
        /\ (res'.err = "CycleError") = CiclicoEm(Necessario(res'.args[1]))]_vars

\* C6 witness: a plan has been returned although the graph has a cycle
\* among courses that alvo does not need.
C6_Witness ==
  /\ res.op \in {"plano_de_estudo_para", "progressao_por_niveis_para"}
  /\ res.err = "ok"
  /\ Ciclico

\* C7 as stated: existe_dependencia(a, a) is false unless the edge a -> a
\* exists.
C7_SoAutoLaco ==
  (/\ res.op = "existe_dependencia"
   /\ res.args[1] = res.args[2]
   /\ res.bool) => res.args[1] \in Get(res.args[1])

\* C7 amended: existe_dependencia(a, a) is true exactly when a lies on a
\* directed cycle, the edge a -> a or a longer cycle through a.
C7_SoEmCiclo ==
  (/\ res.op = "existe_dependencia"
   /\ res.args[1] = res.args[2]) =>
     /\ res.err = "ok"
     /\ res.bool = (res.args[1] \in Alcance(res.args[1]))

\* C7 witness: existe_dependencia(a, a) has returned true for a course on a
\* cycle that has no edge a -> a.
C7_Witness ==
  /\ res.op = "existe_dependencia"
  /\ res.args[1] = res.args[2]
  /\ res.bool
  /\ res.args[1] \notin Get(res.args[1])

\* C8: for courses a and b of the graph existe_dependencia(a, b) is true
\* exactly when a is among todos_prerequisitos(b); when a or b is unknown it
\* returns false and raises nothing.
C8_ConsistenteComTodos ==
  res.op = "existe_dependencia" =>
     LET a == res.args[1]
         b == res.args[2]
     IN /\ res.err = "ok"
        /\ (a \in DOMAIN pre_reqs /\ b \in DOMAIN pre_reqs) =>
             \A r \in todos_prerequisitos_res(b) :
               r.err = "ok" /\ res.bool = (a \in Range(r.lista))
        /\ (a \notin DOMAIN pre_reqs \/ b \notin DOMAIN pre_reqs) => ~res.bool

\* C8 witness: existe_dependencia has returned true for an indirect
\* prerequisite.
C8_Witness ==
  /\ res.op = "existe_dependencia"
  /\ res.bool
  /\ res.args[1] /= res.args[2]
  /\ res.args[1] \notin Get(res.args[2])

\* C9: a course removed and not added again is no key and in no
\* prerequisite set; prerequisitos_diretos, todos_prerequisitos and
\* plano_de_estudo_para raise KeyError for it, existe_dependencia with it on
\* either side returns false, and no result contains it.
C9_Removida ==
  \A x \in removidas :
    /\ x \notin DOMAIN pre_reqs
    /\ \A n \in DOMAIN pre_reqs : x \notin pre_reqs[n]
    /\ (/\ res.op \in {"prerequisitos_diretos", "todos_prerequisitos",
                       "plano_de_estudo_para"}
        /\ res.args = <<x>>) => res.err = "KeyError"
    /\ (res.op = "existe_dependencia" /\ x \in Range(res.args)) =>
         (res.err = "ok" /\ ~res.bool)
    /\ x \notin Range(res.lista)
    /\ \A k \in 1..Len(res.niveis) : x \notin res.niveis[k]

\* C9 witness: plano_de_estudo_para has raised KeyError for a removed course
\* while the graph still has edges.
C9_Witness ==
  /\ res.op = "plano_de_estudo_para"
  /\ res.args[1] \in removidas
  /\ res.err = "KeyError"
  /\ NumArestas >= 1

\* C10: todos_prerequisitos of a known course ends, within one iteration
\* per pushed course, pushes the prerequisites of each course at most once
\* and returns exactly the courses reached by one or more prerequisite
\* edges, each once; for D in the diamond these are A, B and C.
C10_TodosPrerequisitos ==
  /\ (res.op = "todos_prerequisitos" /\ res.args[1] \in DOMAIN pre_reqs) =>
       LET d == res.args[1]
       IN /\ res.err = "ok"
          /\ Range(res.lista) = Alcance(d)
          /\ SemRepeticao(res.lista)
          /\ (d \in Range(res.lista)) = EmCiclo(d)
          /\ \A r \in TodosRuns(d) :
               /\ r.vistos = Alcance(d)
               /\ SemRepeticao(r.expandidos)
               /\ r.passos <= Cardinality(pre_reqs[d]) + NumArestas
  /\ (res.op = "todos_prerequisitos" /\ res.args = <<"D">> /\ pre_reqs = Diamante) =>
       Range(res.lista) = {"A", "B", "C"}

\* C10 witness: todos_prerequisitos(D) has returned on the diamond.
C10_Witness ==
  /\ res.op = "todos_prerequisitos"
  /\ res.args = <<"D">>
  /\ res.err = "ok"
  /\ pre_reqs = Diamante

====
